---- MODULE Spec2Model ----
(***************************************************************************)
(* Model of the WeaGLe CLI (src/weagle): the compose command builders, the *)
(* command runners and the handlers that call them, in both layers:        *)
(*   - main.py (docker_compose_cmd, run_docker_compose_cmd, run_cmd and    *)
(*     the docker_* handlers);                                             *)
(*   - the DockerService layer (docker/services/docker_service.py over     *)
(*     utils/docker_utils.py).                                             *)
(*                                                                         *)
(* A Python string is modelled as a sequence of lexemes: each lexeme is    *)
(* either one space " " or a word without spaces; the text of the string   *)
(* is the concatenation of its lexemes (Str).  The empty string is << >>.  *)
(* None is the record NoneVal, a present value v is Some(v).               *)
(***************************************************************************)
EXTENDS Integers, Sequences, FiniteSets, TLC

VARIABLES fs, os_environ, dotenv_file, setup_env_file, env, default_services, pc, call, cmd, argv, child, spawned, log, outcome, status

vars == <<fs, os_environ, dotenv_file, setup_env_file, env, default_services, pc, call, cmd, argv, child, spawned, log, outcome, status>>

(***************************************************************************)
(* Bounds of the model.                                                    *)
(***************************************************************************)
MaxServices == 2
MaxExit == 2
MaxVerbose == 1

(***************************************************************************)
(* Optional values and strings.                                            *)
(***************************************************************************)
NoneVal == [none |-> TRUE, val |-> << >>]
Some(v) == [none |-> FALSE, val |-> v]

SP == " "

RECURSIVE Str(_)
Str(s) == IF s = << >> THEN "" ELSE Head(s) \o Str(Tail(s))

RECURSIVE Join(_, _)
Join(sep, items) ==
    IF items = << >> THEN << >>
    ELSE IF Len(items) = 1 THEN items[1]
    ELSE items[1] \o sep \o Join(sep, Tail(items))

IsWord(x) == x # SP
\* shlex.split on a string without quotes: the words, in order
Split(s) == SelectSeq(s, IsWord)

BoolInt(b) == IF b THEN 1 ELSE 0

(***************************************************************************)
(* main.py: enumerations (lines 53-71).                                    *)
(***************************************************************************)
ProjectFolders == {"project_01", "project_02", "project_03", "project_04", "project_05"}

ProjectMember(p) ==
    CASE p = "project_01" -> "ProjectFolders.PROJECT_01"
      [] p = "project_02" -> "ProjectFolders.PROJECT_02"
      [] p = "project_03" -> "ProjectFolders.PROJECT_03"
      [] p = "project_04" -> "ProjectFolders.PROJECT_04"
      [] p = "project_05" -> "ProjectFolders.PROJECT_05"

DockerNetworkAction == {"connect", "create", "disconnect", "inspect", "ls", "prune", "rm"}

(***************************************************************************)
(* pathlib.Path: a path is the sequence of the components of the string    *)
(* it is built from; Path drops the "." components, str() joins the rest   *)
(* with "/" ("." when nothing is left).                                    *)
(***************************************************************************)
NotDot(c) == c # "." /\ c # ""
PathParts(raw) == SelectSeq(raw, NotDot)

RECURSIVE JoinSlash(_)
JoinSlash(parts) ==
    IF Len(parts) = 1 THEN parts[1]
    ELSE parts[1] \o "/" \o JoinSlash(Tail(parts))

PathStr(raw) == IF PathParts(raw) = << >> THEN "." ELSE JoinSlash(PathParts(raw))

\* the layout of main.old.py: ./chapters/<scenario>/docker-compose.yml
ComposeFile_chapters(p) == <<".", "chapters", p, "docker-compose.yml">>

\* Path(f"./projects/{project.value}/docker-compose.yml")
ComposeFile(p) == <<".", "projects", p, "docker-compose.yml">>

\* main.old.py: class NetObsScenarios
NetObsScenarios == {"batteries-included", "ch3-completed", "ch5", "ch5-completed", "ch6", "ch6-completed", "ch7", "ch7-completed", "ch8", "ch8-completed", "ch9", "ch9-completed", "ch12", "ch12-completed", "ch13", "ch13-completed"}

\* Path(f"./chapters/{scenario.value}/docker-compose.yml")
ScenarioFile(s) == <<".", "chapters", s, "docker-compose.yml">>

\* Path.exists()
Exists(raw) == PathStr(raw) \in fs

(***************************************************************************)
(* main.py strtobool / is_truthy (lines 77-118).  A result is either a     *)
(* value or a raised exception.                                            *)
(***************************************************************************)
Lower(s) ==
    CASE s = "TRUE" -> "true"
      [] s = "Yes" -> "yes"
      [] s = "ON" -> "on"
      [] s = "No" -> "no"
      [] OTHER -> s

Returned(v) == [exc |-> "", value |-> v]
Raised(e) == [exc |-> e, value |-> FALSE]

strtobool(val) ==
    LET v == Lower(val) IN
    IF v \in {"true", "t", "yes", "y", "1"} THEN Returned(TRUE)
    ELSE IF v \in {"false", "f", "no", "n", "0"} THEN Returned(FALSE)
    ELSE Raised("ValueError")

\* a bool argument
BoolVal(b) == [none |-> FALSE, val |-> "", b |-> b]
IsBool(arg) == "b" \in DOMAIN arg

\* arg is a bool, None or a string
is_truthy(arg) ==
    IF IsBool(arg) THEN Returned(arg.b)
    ELSE IF arg.none THEN Returned(FALSE)
    ELSE strtobool(arg.val)

(***************************************************************************)
(* Input sets of the model.                                                *)
(***************************************************************************)
Projects == {"project_01", "project_02"}
ServiceNames == {"web", "db"}


\* list[str] arguments: the first n names of the pool, each a one-word string
ServicePool == <<"web", "db", "cache", "proxy">>
ServiceLists == {[i \in 1 .. n |-> <<ServicePool[i]>>] : n \in 0 .. MaxServices}
\* Optional[list[str]] arguments
OptServiceLists == {NoneVal} \cup {Some(l) : l \in ServiceLists}

Verbosities == 0 .. MaxVerbose
ExitCodes == 0 .. MaxExit

Scenarios == {"ch5"}
ComposePaths == {PathStr(ComposeFile(p)) : p \in Projects}
    \cup {PathStr(ScenarioFile(s)) : s \in Scenarios}
\* DOCKER_COMPOSE_WITH_HASH in the process environment, in .env and in
\* .setup.env: NoneVal when the source does not define the key
ProcessEnvValues == {NoneVal, Some("maybe")}
DotenvValues == {NoneVal, Some("TRUE"), Some("on")}
SetupEnvValues == {NoneVal, Some("0")}
EnvValues == ProcessEnvValues \cup DotenvValues \cup SetupEnvValues

\* python truthiness of a list / string / int argument
NonEmpty(s) == s # << >>
Truthy(n) == n # 0
\* `services if services else []`
OrEmpty(opt) == IF opt.none \/ opt.val = << >> THEN << >> ELSE opt.val

(***************************************************************************)
(* Console sink: console.log / console.rule / console.print entries.       *)
(***************************************************************************)
LogLine(style, fmt, arg) == [arg |-> arg, style |-> style, fmt |-> fmt, kind |-> "log"]
RuleLine(style, fmt, arg) == [arg |-> arg, style |-> style, fmt |-> fmt, kind |-> "rule"]
PrintLine == [arg |-> << >>, style |-> "", fmt |-> "", kind |-> "print"]

(***************************************************************************)
(* Outcome of a call.                                                      *)
(***************************************************************************)
NoOutcome == [exc |-> "", value |-> << >>, kind |-> "none", type |-> "", code |-> 0]
\* return of a CompletedProcess with this returncode
ReturnProcess(c) == [exc |-> "", value |-> << >>, kind |-> "return", type |-> "CompletedProcess", code |-> c]
\* return of a string
ReturnStr(s) == [exc |-> "", value |-> s, kind |-> "return", type |-> "str", code |-> 0]
\* a function without return statement returns None
ReturnNone == [exc |-> "", value |-> << >>, kind |-> "return", type |-> "None", code |-> 0]
\* an exception leaves the call; code is typer.Exit's exit code or the
\* child's return code carried by CalledProcessError
Raise(e, c) == [exc |-> e, value |-> << >>, kind |-> "raise", type |-> "", code |-> c]

\* the child process of the call: none yet, running, exited with return code
\* rc, or killed
NoChild == [st |-> "none", rc |-> 0]
Running == [st |-> "running", rc |-> 0]
Exited(c) == [st |-> "exited", rc |-> c]
Killed == [st |-> "killed", rc |-> 0]

\* the exit status of the CLI process, once a command of the typer app ended
NoStatus == [code |-> 0, exited |-> FALSE]
ExitStatus(c) == [code |-> c, exited |-> TRUE]

\* the commands of the typer apps: main.py docker_app, and the commands of
\* docker/commands over DockerService
MainHandlers == {"docker_build", "docker_start", "docker_stop", "docker_exec",
                 "docker_debug", "docker_restart", "docker_logs"}
ServiceComposeOps == {"start", "stop", "debug", "restart", "destroy", "docker_ps"}
\* a command line the typer app rejects before it calls a handler
UsageErrors == {"usage_error"}
\* the commands of the typer app of main.old.py
OldHandlers == {"old_docker_build", "old_docker_exec", "old_docker_debug", "old_docker_start",
                "old_docker_stop", "old_docker_restart", "old_docker_logs", "old_docker_ps",
                "old_docker_destroy", "old_docker_rm", "old_docker_network"}
IsCli(c) == c.fn \in MainHandlers \cup ServiceComposeOps \cup {"manage_network"} \cup UsageErrors \cup OldHandlers

\* A command handler calls the runner as a statement: the value returned is
\* dropped and the handler returns None, so the app exits 0; typer.Exit(c)
\* exits c, a usage error of the argument parser exits 2; any other exception
\* ends the process with status 1.
CliExit(out) ==
    IF out.kind = "return" THEN 0
    ELSE IF out.exc \in {"typer.Exit", "click.UsageError"} THEN out.code
    ELSE 1

StatusAfter(c, out) == IF IsCli(c) THEN ExitStatus(CliExit(out)) ELSE NoStatus

NoCall == [fn |-> "", layer |-> "", file |-> << >>, action |-> << >>,
           services |-> NoneVal, verbose |-> 0, extra |-> << >>,
           command |-> << >>, name |-> << >>, timeout |-> FALSE, task |-> << >>,
           project |-> ""]

(***************************************************************************)
(* main.py docker_compose_cmd (lines 166-205).                             *)
(***************************************************************************)
\* ENVVARS.get("DOCKER_COMPOSE_WITH_HASH", None)
EnvHashFlag == env

\* variant: the service list is appended before the extra options
docker_compose_cmd_services_first(compose_action, docker_compose_file, services, verbose, extra_options, command, compose_name) ==
    LET hash == is_truthy(EnvHashFlag)
        base == <<"docker-compose", SP, "--project-name", SP>> \o compose_name
                    \o <<SP, "-f", SP, PathStr(docker_compose_file)>>
        c1 == IF Truthy(verbose) THEN base \o <<SP, "--verbose">> ELSE base
        c2 == c1 \o <<SP>> \o compose_action
        c3 == IF NonEmpty(services) THEN c2 \o <<SP>> \o Join(<<SP>>, services) ELSE c2
        c4 == IF NonEmpty(extra_options) THEN c3 \o <<SP>> \o extra_options ELSE c3
        c5 == IF NonEmpty(command) THEN c4 \o <<SP>> \o command ELSE c4
    IN IF hash.exc # "" THEN Raise(hash.exc, 0) ELSE ReturnStr(c5)

\* variant: '--verbose' is appended whatever the verbosity
docker_compose_cmd_always_verbose(compose_action, docker_compose_file, services, verbose, extra_options, command, compose_name) ==
    LET hash == is_truthy(EnvHashFlag)
        base == <<"docker-compose", SP, "--project-name", SP>> \o compose_name
                    \o <<SP, "-f", SP, PathStr(docker_compose_file)>>
        c1 == base \o <<SP, "--verbose">>
        c2 == c1 \o <<SP>> \o compose_action
        c3 == IF NonEmpty(extra_options) THEN c2 \o <<SP>> \o extra_options ELSE c2
        c4 == IF NonEmpty(services) THEN c3 \o <<SP>> \o Join(<<SP>>, services) ELSE c3
        c5 == IF NonEmpty(command) THEN c4 \o <<SP>> \o command ELSE c4
    IN IF hash.exc # "" THEN Raise(hash.exc, 0) ELSE ReturnStr(c5)

docker_compose_cmd(compose_action, docker_compose_file, services, verbose, extra_options, command, compose_name) ==
    LET hash == is_truthy(EnvHashFlag)
        base == IF hash.value
                THEN <<"docker-compose", SP, "--project-name", SP>> \o compose_name
                         \o <<SP, "-f", SP, PathStr(docker_compose_file)>>
                ELSE <<"docker-compose", SP, "--project-name", SP>> \o compose_name
                         \o <<SP, "-f", SP, PathStr(docker_compose_file)>>
        c1 == IF Truthy(verbose) THEN base \o <<SP, "--verbose">> ELSE base
        c2 == c1 \o <<SP>> \o compose_action
        c3 == IF NonEmpty(extra_options) THEN c2 \o <<SP>> \o extra_options ELSE c2
        c4 == IF NonEmpty(services) THEN c3 \o <<SP>> \o Join(<<SP>>, services) ELSE c3
        c5 == IF NonEmpty(command) THEN c4 \o <<SP>> \o command ELSE c4
    IN IF hash.exc # "" THEN Raise(hash.exc, 0) ELSE ReturnStr(c5)

(***************************************************************************)
(* main.py run_cmd (lines 121-163): up to the blocking subprocess.run, and *)
(* from its return on.                                                     *)
(***************************************************************************)
\* a run_cmd that would start the child without announcing the command
MainRunCmdStart_unannounced(pre, exec_cmd) ==
    /\ log' = pre
    /\ cmd' = exec_cmd
    /\ argv' = << >>
    /\ child' = NoChild
    /\ spawned' = 0
    /\ outcome' = NoOutcome
    /\ status' = NoStatus
    /\ pc' = "spawning"

\* line 130: console.log("Running command: ..."); subprocess.run comes next
MainRunCmdStart(pre, exec_cmd) ==
    /\ log' = pre \o <<LogLine("info", "Running command: {}", exec_cmd)>>
    /\ cmd' = exec_cmd
    /\ argv' = << >>
    /\ child' = NoChild
    /\ spawned' = 0
    /\ outcome' = NoOutcome
    /\ status' = NoStatus
    /\ pc' = "spawning"

\* task_name = task_name if task_name else exec_cmd
TaskName(task_name, exec_cmd) == IF NonEmpty(task_name) THEN task_name ELSE exec_cmd

\* variant: subprocess.run(check=True), a non-zero return code is raised
MainRunCmdFinish_checked(code) ==
    LET task_name == TaskName(call.task, cmd)
    IN IF code # 0
       THEN /\ log' = log
            /\ outcome' = Raise("CalledProcessError", code)
       ELSE /\ log' = log \o <<LogLine("good", "{} completed successfully", task_name),
                                RuleLine("info", "End of task: [b i]{}", task_name), PrintLine>>
            /\ outcome' = ReturnProcess(code)

\* lines 156-163, with result.returncode = code
MainRunCmdFinish(code) ==
    LET task_name == TaskName(call.task, cmd)
        line == IF code = 0
                THEN LogLine("good", "{} completed successfully", task_name)
                ELSE LogLine("error", "{} failed", task_name)
    IN /\ log' = log \o <<line, RuleLine("info", "End of task: [b i]{}", task_name), PrintLine>>
       /\ outcome' = ReturnProcess(code)

(***************************************************************************)
(* main.py run_docker_compose_cmd (lines 208-262).                         *)
(***************************************************************************)
Abort(lines, out) ==
    /\ log' = lines
    /\ outcome' = out
    /\ cmd' = << >>
    /\ argv' = << >>
    /\ child' = NoChild
    /\ spawned' = 0
    /\ status' = StatusAfter(call', out)
    /\ pc' = "done"

\* variant: the compose file is not tested before the command is built and run
run_docker_compose_cmd_unchecked(pre, filename, action, services, verbose, command, extra_options) ==
    LET built == docker_compose_cmd(action, filename, services, verbose,
                                    extra_options, command, <<"weagle">>)
    IN IF built.kind = "raise"
       THEN Abort(pre, built)
       ELSE MainRunCmdStart(pre, built.value)

run_docker_compose_cmd(pre, filename, action, services, verbose, command, extra_options) ==
    IF ~Exists(filename)
    THEN Abort(pre \o <<LogLine("error", "File not found: [orange1 i]{}", <<PathStr(filename)>>)>>,
               Raise("typer.Exit", 1))
    ELSE LET built == docker_compose_cmd(action, filename, services, verbose,
                                         extra_options, command, <<"weagle">>)
         IN IF built.kind = "raise"
            THEN Abort(pre, built)
            ELSE MainRunCmdStart(pre, built.value)

(***************************************************************************)
(* utils/docker_utils.py (lines 6-18) and DockerService.manage_network     *)
(* (docker_service.py lines 47-53).                                        *)
(***************************************************************************)
StdoutLine(fmt, arg) == [arg |-> arg, style |-> "", fmt |-> fmt, kind |-> "stdout"]

\* `" ".join(services) if services else ""`
UtilsServiceList(services) ==
    IF services.none \/ services.val = << >> THEN << >> ELSE Join(<<SP>>, services.val)

\* f"docker-compose -f {filename} {action} {service_list} {extra_options}"
UtilsComposeCmd(action, filename, services, extra_options) ==
    <<"docker-compose", SP, "-f", SP, PathStr(filename), SP>> \o action
        \o <<SP>> \o UtilsServiceList(services) \o <<SP>> \o extra_options

\* run(cmd, shell=True, check=True): the shell runs the words of cmd
UtilsSpawn(lines, exec_cmd) ==
    /\ log' = lines
    /\ cmd' = exec_cmd
    /\ argv' = Split(exec_cmd)
    /\ child' = Running
    /\ spawned' = spawned + 1
    /\ outcome' = NoOutcome
    /\ status' = NoStatus
    /\ pc' = "waiting"

utils_run_docker_compose_cmd(action, filename, services, verbose, extra_options) ==
    LET c == UtilsComposeCmd(action, filename, services, extra_options)
    IN UtilsSpawn(IF verbose THEN <<StdoutLine("Running command: {}", c)>> ELSE << >>, c)

utils_run_cmd(exec_cmd, task_name, verbose) ==
    UtilsSpawn(IF verbose THEN <<StdoutLine(Str(task_name) \o ": {}", exec_cmd)>> ELSE << >>, exec_cmd)

\* check=True: a non-zero return code raises CalledProcessError
UtilsFinish(code) ==
    /\ log' = log
    /\ outcome' = IF code # 0 THEN Raise("CalledProcessError", code) ELSE ReturnNone

\* variant: the options are written '--driver=<driver>' and '--subnet=<subnet>'
NetworkCmd_equals_form(action, name, driver, subnet) ==
    LET base == <<"docker", SP, "network", SP, action>>
    IN IF action = "create"
       THEN base \o <<SP, "--driver=" \o driver, SP, "--subnet=" \o subnet, SP, name>>
       ELSE base

NetworkCmd(action, name, driver, subnet) ==
    LET base == <<"docker", SP, "network", SP, action>>
    IN IF action = "create"
       THEN base \o <<SP, "--driver", SP, driver, SP, "--subnet", SP, subnet, SP, name>>
       ELSE base

(***************************************************************************)
(* State machine.  A call starts when no call is in progress; it either    *)
(* ends at once (pc = "done") or blocks on the child it spawned            *)
(* (pc = "waiting") until the child exits or the timeout expires.  The     *)
(* caller then takes the outcome (Resume) and the next call may start:     *)
(* calls are synchronous and never overlap.                                *)
(* call holds the arguments the runner was called with.                    *)
(***************************************************************************)
MkCall(fn, layer, file, action, services, verbose, extra, command, name, timeout, task) ==
    [fn |-> fn, layer |-> layer, file |-> file, action |-> action,
     services |-> services, verbose |-> verbose, extra |-> extra,
     command |-> command, name |-> name, timeout |-> timeout, task |-> task,
     project |-> ""]

Ready == pc = "idle"

\* a builder that would extend the list it was given: a call that starts
\* leaves its services in the shared default list
KeepModuleState_services_extended ==
    /\ UNCHANGED <<fs, os_environ, dotenv_file, setup_env_file, env>>
    /\ default_services' = IF pc = "idle" THEN <<<<"cache">>>> ELSE default_services

\* No statement of either layer assigns to ENVVARS or os.environ, mutates the
\* default services list of docker_compose_cmd / run_docker_compose_cmd, or
\* writes a file: the runners only read them.
KeepModuleState == UNCHANGED <<fs, os_environ, dotenv_file, setup_env_file, env, default_services>>

ComposeActions == {<<"up">>, <<"logs">>}
ExtraOptions == {<< >>, <<"-d", SP, "--remove-orphans">>}
Commands == {<< >>, <<"ls", SP, "-la">>}
ComposeNames == {<< >>, <<"weagle">>}
TaskNames == {<< >>, <<"Task">>}
ComposeFiles == {ComposeFile(p) : p \in Projects}
Tails == {-1, 0, 100}

\* line 19: load_dotenv(override=True, dotenv_path=Path("./.env")) copies the
\* value .env gives the key into os.environ, over a value that is there
load_dotenv(environ, dotenv) == IF dotenv.none THEN environ ELSE dotenv

\* line 20: {**dotenv_values(".env"), **dotenv_values(".setup.env"), **os.environ}:
\* a later mapping replaces the value of an earlier one
MergeEnv(dotenv, setup, environ) ==
    IF ~environ.none THEN environ
    ELSE IF ~setup.none THEN setup
    ELSE dotenv

\* the process was launched and main.py is not imported yet
Init ==
    /\ fs \in SUBSET ComposePaths
    /\ os_environ \in ProcessEnvValues
    /\ dotenv_file \in DotenvValues
    /\ setup_env_file \in SetupEnvValues
    /\ env = NoneVal
    /\ pc = "import"
    /\ call = NoCall
    /\ cmd = << >>
    /\ argv = << >>
    /\ child = NoChild
    /\ spawned = 0
    /\ log = << >>
    /\ outcome = NoOutcome
    /\ status = NoStatus
    /\ default_services = << >>

\* the import of main.py: lines 19-20 run once, before any command
Import ==
    /\ pc = "import"
    /\ os_environ' = load_dotenv(os_environ, dotenv_file)
    /\ env' = MergeEnv(dotenv_file, setup_env_file, os_environ')
    /\ env' \in EnvValues
    /\ pc' = "idle"
    /\ UNCHANGED <<fs, dotenv_file, setup_env_file, default_services, call, cmd, argv, child, spawned, log, outcome, status>>

\* a direct call of main.py docker_compose_cmd
\* services is NoneVal when the argument is left out: the parameter is then
\* bound to the default list object
DockerComposeCmd ==
    \E a \in ComposeActions, f \in ComposeFiles, s \in OptServiceLists, v \in Verbosities, x \in ExtraOptions, c \in Commands, n \in ComposeNames :
        /\ Ready
        /\ call' = MkCall("docker_compose_cmd", "main", f, a, s, v, x, c, n, FALSE, << >>)
        /\ Abort(<< >>, docker_compose_cmd(a, f, IF s.none THEN default_services ELSE s.val, v, x, c, n))
        /\ KeepModuleState

\* a direct call of main.py run_docker_compose_cmd
RunDockerComposeCmd ==
    \E a \in ComposeActions, f \in ComposeFiles, s \in ServiceLists, v \in Verbosities, x \in ExtraOptions, c \in Commands, t \in BOOLEAN :
        /\ Ready
        /\ call' = MkCall("run_docker_compose_cmd", "main", f, a, Some(s), v, x, c, <<"weagle">>, t, <<"Task">>)
        /\ run_docker_compose_cmd(<< >>, f, a, s, v, c, x)
        /\ KeepModuleState

\* a direct call of main.py run_cmd
RunCmd ==
    \E e \in {<<"docker", SP, "ps">>, <<"docker", SP, "network", SP, "ls">>}, t \in BOOLEAN, k \in TaskNames :
        /\ Ready
        /\ call' = MkCall("run_cmd", "main", << >>, << >>, NoneVal, 0, << >>, << >>, << >>, t, k)
        /\ MainRunCmdStart(<< >>, e)
        /\ KeepModuleState

\* f"{services}" of an Optional[list[str]]
QuoteItem(w) == <<"'" \o Str(w) \o "'">>
QuotedItems(l) == [i \in 1 .. Len(l) |-> QuoteItem(l[i])]
ListRepr(opt) ==
    IF opt.none THEN <<"None">>
    ELSE <<"[">> \o Join(<<",", SP>>, QuotedItems(opt.val)) \o <<"]">>

\* a handler that would pass timeout= to run_docker_compose_cmd
MainHandler_with_timeout(fn, line, p, action, services, verbose, command, extra, task) ==
    /\ Ready
    /\ call' = [MkCall(fn, "main", ComposeFile(p), action, Some(services), BoolInt(verbose), extra, command, <<"weagle">>, TRUE, task) EXCEPT !.project = p]
    /\ run_docker_compose_cmd(<<line>>, ComposeFile(p), action, services, BoolInt(verbose), command, extra)
    /\ KeepModuleState

\* a stack handler of main.py: its own log line, then run_docker_compose_cmd
MainHandler(fn, line, p, action, services, verbose, command, extra, task) ==
    /\ Ready
    /\ call' = [MkCall(fn, "main", ComposeFile(p), action, Some(services), BoolInt(verbose), extra, command, <<"weagle">>, FALSE, task) EXCEPT !.project = p]
    /\ run_docker_compose_cmd(<<line>>, ComposeFile(p), action, services, BoolInt(verbose), command, extra)
    /\ KeepModuleState

docker_build ==
    \E p \in Projects, s \in OptServiceLists, v \in BOOLEAN :
        MainHandler("docker_build", LogLine("info", "Building project: {}", <<ProjectMember(p)>>),
                    p, <<"build">>, OrEmpty(s), v, << >>, << >>, <<"Building", SP, "project">>)

docker_start ==
    \E p \in Projects, s \in OptServiceLists, v \in BOOLEAN, detached \in BOOLEAN :
        MainHandler("docker_start", LogLine("info", "Starting project: {}", <<ProjectMember(p)>>),
                    p, <<"up">>, OrEmpty(s), v, << >>, IF detached THEN <<"-d">> ELSE << >>,
                    <<"Starting", SP, "project">>)

docker_stop ==
    \E p \in Projects, s \in OptServiceLists, v \in BOOLEAN :
        MainHandler("docker_stop", LogLine("info", "Stopping project: {}", <<ProjectMember(p)>>),
                    p, <<"stop">>, OrEmpty(s), v, << >>, << >>, <<"Stopping", SP, "project">>)

docker_exec ==
    \E p \in Projects, s \in ServiceNames, c \in {<<"bash">>, <<"ls", SP, "-la">>}, v \in BOOLEAN :
        MainHandler("docker_exec", LogLine("info", "Executing command: {}", c),
                    p, <<"exec">>, <<(<<s>>)>>, v, c, << >>, <<"Executing", SP, "command">>)

\* services has no default (line 417): typer requires at least one SERVICES
\* word, so the handler always gets a list that is not empty
docker_debug ==
    \E p \in Projects, s \in ServiceLists \ {<< >>}, v \in BOOLEAN :
        MainHandler("docker_debug", LogLine("info", "Debugging service: {}", ListRepr(Some(s))),
                    p, <<"up">>, s, v, << >>, << >>, <<"Debugging", SP, "service">>)

\* 'debug -p <project>' without SERVICES: the argument parser ends the
\* process with "Missing argument 'SERVICES...'" and status 2; docker_debug is
\* not called, nothing is written to the console and no child is started
docker_debug_usage_error ==
    \E p \in Projects, v \in BOOLEAN :
        /\ Ready
        /\ call' = [MkCall("usage_error", "cli", ComposeFile(p), << >>, NoneVal, BoolInt(v), << >>, << >>, << >>, FALSE, << >>) EXCEPT !.project = p]
        /\ Abort(<< >>, Raise("click.UsageError", 2))
        /\ KeepModuleState

docker_restart ==
    \E p \in Projects, s \in OptServiceLists, v \in BOOLEAN :
        MainHandler("docker_restart", LogLine("info", "Restarting project: {}", <<ProjectMember(p)>>),
                    p, <<"restart">>, OrEmpty(s), v, << >>, << >>, <<"Restarting", SP, "project">>)

\* variant: the tail option is appended before the follow flag
LogsOptions_tail_first(follow, tail) ==
    (IF Truthy(tail) THEN <<SP, "--tail=" \o ToString(tail)>> ELSE << >>)
        \o (IF follow THEN <<SP, "-f">> ELSE << >>)

\* options = ""; if follow: options += " -f"; if tail: options += f" --tail={tail}"
LogsOptions(follow, tail) ==
    (IF follow THEN <<SP, "-f">> ELSE << >>)
        \o (IF Truthy(tail) THEN <<SP, "--tail=" \o ToString(tail)>> ELSE << >>)

docker_logs ==
    \E p \in Projects, s \in OptServiceLists, follow \in BOOLEAN, tail \in Tails, v \in BOOLEAN :
        MainHandler("docker_logs", LogLine("info", "Getting logs for project: {}", <<ProjectMember(p)>>),
                    p, <<"logs">>, OrEmpty(s), v, << >>, LogsOptions(follow, tail),
                    <<"Getting", SP, "logs">>)

(***************************************************************************)
(* DockerService (docker/services/docker_service.py), called by the        *)
(* commands of docker/commands.                                            *)
(***************************************************************************)
ServiceOp(fn, p, action, services, verbose, task, extra) ==
    /\ Ready
    /\ call' = [MkCall(fn, "service", ComposeFile(p), action, services, BoolInt(verbose), extra, << >>, << >>, FALSE, task) EXCEPT !.project = p]
    /\ utils_run_docker_compose_cmd(action, ComposeFile(p), services, verbose, extra)
    /\ KeepModuleState

service_start ==
    \E p \in Projects, s \in OptServiceLists, v \in BOOLEAN :
        ServiceOp("start", p, <<"up">>, s, v, <<"Starting", SP, "project">>, <<"-d">>)

service_stop ==
    \E p \in Projects, s \in OptServiceLists, v \in BOOLEAN :
        ServiceOp("stop", p, <<"down">>, s, v, <<"Stopping", SP, "project">>, << >>)

service_debug ==
    \E p \in Projects, s \in OptServiceLists, v \in BOOLEAN :
        ServiceOp("debug", p, <<"up">>, s, v, <<"Debugging", SP, "service">>, << >>)

service_restart ==
    \E p \in Projects, s \in OptServiceLists, v \in BOOLEAN :
        ServiceOp("restart", p, <<"restart">>, s, v, <<"Restarting", SP, "project">>, << >>)

service_destroy ==
    \E p \in Projects, s \in OptServiceLists, v \in BOOLEAN :
        ServiceOp("destroy", p, <<"down", SP, "--volumes">>, s, v, <<"Destroying", SP, "project">>, << >>)

service_docker_ps ==
    \E p \in Projects, s \in OptServiceLists, v \in BOOLEAN :
        ServiceOp("docker_ps", p, <<"ps">>, s, v, <<"Listing", SP, "services">>, << >>)

NetworkActions == DockerNetworkAction \cup {"bogus"}
NetworkNames == {"weagle-network", "lab-net"}
NetworkDrivers == {"bridge", "overlay"}
NetworkSubnets == {"192.168.1.0/24", "10.0.0.0/8"}

\* network_commands.docker_network -> DockerService.manage_network
manage_network ==
    \E a \in NetworkActions, n \in NetworkNames, d \in NetworkDrivers, sn \in NetworkSubnets, v \in BOOLEAN :
        /\ Ready
        /\ call' = MkCall("manage_network", "service", << >>, <<a>>, NoneVal, BoolInt(v), <<d, sn>>, << >>, <<n>>, FALSE, <<"Network", SP, a>>)
        /\ utils_run_cmd(NetworkCmd(a, n, d, sn), <<"Network", SP, a>>, v)
        /\ KeepModuleState

(***************************************************************************)
(* main.old.py: the earlier app of the repository, with its own copies of  *)
(* strtobool, docker_compose_cmd, run_cmd and run_docker_compose_cmd and   *)
(* its stack commands over ./chapters/<scenario>/docker-compose.yml.       *)
(***************************************************************************)
\* lines 189-204
old_strtobool(val) ==
    LET v == Lower(val) IN
    IF v \in {"y", "yes", "t", "true", "on", "1"} THEN Returned(TRUE)
    ELSE IF v \in {"n", "no", "f", "false", "off", "0"} THEN Returned(FALSE)
    ELSE Raised("ValueError")

\* lines 207-224
old_is_truthy(arg) ==
    IF IsBool(arg) THEN Returned(arg.b)
    ELSE IF arg.none THEN Returned(FALSE)
    ELSE old_strtobool(arg.val)

\* lines 227-266
old_docker_compose_cmd(compose_action, docker_compose_file, services, verbose, extra_options, command, compose_name) ==
    LET hash == old_is_truthy(EnvHashFlag)
        base == IF hash.value
                THEN <<"docker-compose", SP, "--project-name", SP>> \o compose_name
                         \o <<SP, "-f", SP, PathStr(docker_compose_file)>>
                ELSE <<"docker", SP, "compose", SP, "--project-name", SP>> \o compose_name
                         \o <<SP, "-f", SP, PathStr(docker_compose_file)>>
        c1 == IF Truthy(verbose) THEN base \o <<SP, "--verbose">> ELSE base
        c2 == c1 \o <<SP>> \o compose_action
        c3 == IF NonEmpty(extra_options) THEN c2 \o <<SP>> \o extra_options ELSE c2
        c4 == IF NonEmpty(services) THEN c3 \o <<SP>> \o Join(<<SP>>, services) ELSE c3
        c5 == IF NonEmpty(command) THEN c4 \o <<SP>> \o command ELSE c4
    IN IF hash.exc # "" THEN Raise(hash.exc, 0) ELSE ReturnStr(c5)

\* line 290: console.log("Running command: ..."); subprocess.run comes next
OldRunCmdStart(pre, exec_cmd) ==
    /\ log' = pre \o <<LogLine("info", "Running command: [orange1 i]{}", exec_cmd)>>
    /\ cmd' = exec_cmd
    /\ argv' = << >>
    /\ child' = NoChild
    /\ spawned' = 0
    /\ outcome' = NoOutcome
    /\ status' = NoStatus
    /\ pc' = "spawning"

\* lines 301-308, with result.returncode = code
OldRunCmdFinish(code) ==
    LET task_name == TaskName(call.task, cmd)
        line == IF code = 0
                THEN LogLine("good", "Successfully ran: [i]{}", task_name)
                ELSE LogLine("warning", "Issues encountered running: [i]{}", task_name)
    IN /\ log' = log \o <<line, RuleLine("info", "End of task: [b i]{}", task_name), PrintLine>>
       /\ outcome' = ReturnProcess(code)

\* lines 311-363
old_run_docker_compose_cmd(pre, filename, action, services, verbose, command, extra_options) ==
    IF ~Exists(filename)
    THEN Abort(pre \o <<LogLine("error", "File not found: [orange1 i]{}", <<PathStr(filename)>>)>>,
               Raise("typer.Exit", 1))
    ELSE LET built == old_docker_compose_cmd(action, filename, services, verbose,
                                             extra_options, command, <<"netobs">>)
         IN IF built.kind = "raise"
            THEN Abort(pre, built)
            ELSE OldRunCmdStart(pre, built.value)

\* a stack command of main.old.py: its own log line, which prints the
\* services argument, then run_docker_compose_cmd
OldHandler(fn, fmt, shown, s, action, services, verbose, extra, command, task) ==
    /\ Ready
    /\ call' = [MkCall(fn, "old", ScenarioFile(s), action, Some(services), BoolInt(verbose), extra, command, <<"netobs">>, FALSE, task) EXCEPT !.project = s]
    /\ old_run_docker_compose_cmd(<<LogLine("info", fmt, shown)>>, ScenarioFile(s), action, services, BoolInt(verbose), command, extra)
    /\ KeepModuleState

old_docker_build ==
    \E sc \in Scenarios, s \in OptServiceLists, v \in BOOLEAN :
        OldHandler("old_docker_build", "Building service(s): [orange1 i]{}", ListRepr(s),
                   sc, <<"build">>, OrEmpty(s), v, << >>, << >>, <<"build", SP, "stack">>)

old_docker_exec ==
    \E sc \in Scenarios, s \in ServiceNames, c \in {<<"bash">>, <<"ls", SP, "-la">>}, v \in BOOLEAN :
        OldHandler("old_docker_exec", "Executing command in service: [orange1 i]{}", <<s>>,
                   sc, <<"exec">>, <<(<<s>>)>>, v, << >>, c, <<"exec", SP, "command">>)

old_docker_debug ==
    \E sc \in Scenarios, s \in OptServiceLists, v \in BOOLEAN :
        OldHandler("old_docker_debug", "Starting in debug mode service(s): [orange1 i]{}", ListRepr(s),
                   sc, <<"up">>, OrEmpty(s), v, <<"--remove-orphans">>, << >>, <<"debug", SP, "stack">>)

old_docker_start ==
    \E sc \in Scenarios, s \in OptServiceLists, v \in BOOLEAN :
        OldHandler("old_docker_start", "Starting service(s): [orange1 i]{}", ListRepr(s),
                   sc, <<"up">>, OrEmpty(s), v, <<"-d", SP, "--remove-orphans">>, << >>, <<"start", SP, "stack">>)

old_docker_stop ==
    \E sc \in Scenarios, s \in OptServiceLists, v \in BOOLEAN :
        OldHandler("old_docker_stop", "Stopping service(s): [orange1 i]{}", ListRepr(s),
                   sc, <<"stop">>, OrEmpty(s), v, << >>, << >>, <<"stop", SP, "stack">>)

old_docker_restart ==
    \E sc \in Scenarios, s \in OptServiceLists, v \in BOOLEAN :
        OldHandler("old_docker_restart", "Restarting service(s): [orange1 i]{}", ListRepr(s),
                   sc, <<"restart">>, OrEmpty(s), v, << >>, << >>, <<"restart", SP, "stack">>)

\* options = ""; if follow: options += "-f "; if tail: options += f"--tail={tail}"
\* (tail is None by default, which is falsy like 0)
OldLogsOptions(follow, tail) ==
    (IF follow THEN <<"-f", SP>> ELSE << >>)
        \o (IF Truthy(tail) THEN <<"--tail=" \o ToString(tail)>> ELSE << >>)

old_docker_logs ==
    \E sc \in Scenarios, s \in OptServiceLists, follow \in BOOLEAN, tail \in Tails, v \in BOOLEAN :
        OldHandler("old_docker_logs", "Showing logs for service(s): [orange1 i]{}", ListRepr(s),
                   sc, <<"logs">>, OrEmpty(s), v, OldLogsOptions(follow, tail), << >>, <<"show", SP, "logs">>)

old_docker_ps ==
    \E sc \in Scenarios, s \in OptServiceLists, v \in BOOLEAN :
        OldHandler("old_docker_ps", "Showing containers for service(s): [orange1 i]{}", ListRepr(s),
                   sc, <<"ps">>, OrEmpty(s), v, << >>, << >>, <<"show", SP, "containers">>)

old_docker_destroy ==
    \E sc \in Scenarios, s \in OptServiceLists, volumes \in BOOLEAN, v \in BOOLEAN :
        OldHandler("old_docker_destroy", "Destroying service(s): [orange1 i]{}", ListRepr(s),
                   sc, <<"down">>, OrEmpty(s), v,
                   IF volumes THEN <<"--volumes", SP, "--remove-orphans">> ELSE <<"--remove-orphans">>,
                   << >>, <<"destroy", SP, "stack">>)

\* extra_options = "--stop "; if force: += "--force "; if volumes: += "--volumes "
RmOptions(force, volumes) ==
    <<"--stop", SP>> \o (IF force THEN <<"--force", SP>> ELSE << >>)
        \o (IF volumes THEN <<"--volumes", SP>> ELSE << >>)

old_docker_rm ==
    \E sc \in Scenarios, s \in OptServiceLists, volumes \in BOOLEAN, force \in BOOLEAN, v \in BOOLEAN :
        OldHandler("old_docker_rm", "Removing service(s): [orange1 i]{}", ListRepr(s),
                   sc, <<"rm">>, OrEmpty(s), v, RmOptions(force, volumes), << >>, <<"remove", SP, "containers">>)

\* lines 704-710: driver and subnet for create, the name unless ls or prune
OldNetworkCmd(action, name, driver, subnet) ==
    LET c0 == <<"docker", SP, "network", SP, action>>
        c1 == IF driver # "" /\ action = "create" THEN c0 \o <<SP, "--driver=" \o driver, SP>> ELSE c0
        c2 == IF subnet # "" /\ action = "create" THEN c1 \o <<SP, "--subnet=" \o subnet>> ELSE c1
    IN IF action # "ls" /\ action # "prune" THEN c2 \o <<SP, name>> ELSE c2

\* the action is a DockerNetworkAction: typer accepts no other word
old_docker_network ==
    \E a \in DockerNetworkAction, n \in NetworkNames, d \in NetworkDrivers, sn \in NetworkSubnets :
        /\ Ready
        /\ call' = MkCall("old_docker_network", "old", << >>, <<a>>, NoneVal, 0, <<d, sn>>, << >>, <<n>>, FALSE, <<"network", SP, a>>)
        /\ OldRunCmdStart(<<LogLine("info", "Network {}: [orange1 i]{}", <<a, n>>)>>, OldNetworkCmd(a, n, d, sn))
        /\ KeepModuleState

(***************************************************************************)
(* The child process ends: subprocess.run returns (or raises), and the     *)
(* runner that was blocked on it runs to its end.                          *)
(***************************************************************************)
\* subprocess.run(split(exec_cmd), ...) starts the child and blocks on it
SubprocessRun ==
    /\ pc = "spawning"
    /\ argv' = Split(cmd)
    /\ child' = Running
    /\ spawned' = spawned + 1
    /\ pc' = "waiting"
    /\ KeepModuleState
    /\ UNCHANGED <<call, cmd, log, outcome, status>>

ChildExit ==
    \E code \in ExitCodes :
        /\ pc = "waiting"
        /\ child = Running
        /\ child' = Exited(code)
        /\ CASE call.layer = "main" -> MainRunCmdFinish(code)
             [] call.layer = "old" -> OldRunCmdFinish(code)
             [] OTHER -> UtilsFinish(code)
        /\ status' = StatusAfter(call, outcome')
        /\ pc' = "done"
        /\ KeepModuleState
        /\ UNCHANGED <<call, cmd, argv, spawned>>

\* a run_cmd that would catch TimeoutExpired and report a failed task instead
ChildTimeout_swallowed ==
    /\ pc = "waiting"
    /\ child = Running
    /\ call.timeout
    /\ child' = Killed
    /\ MainRunCmdFinish(1)
    /\ status' = StatusAfter(call, outcome')
    /\ pc' = "done"
    /\ KeepModuleState
    /\ UNCHANGED <<call, cmd, argv, spawned>>

\* subprocess.run(timeout=...) kills the child and raises TimeoutExpired
ChildTimeout ==
    /\ pc = "waiting"
    /\ child = Running
    /\ call.timeout
    /\ child' = Killed
    /\ outcome' = Raise("TimeoutExpired", 0)
    /\ status' = StatusAfter(call, Raise("TimeoutExpired", 0))
    /\ pc' = "done"
    /\ KeepModuleState
    /\ UNCHANGED <<call, cmd, argv, spawned, log>>

\* the caller takes the outcome of the finished call; the module-level
\* state (ENVVARS) and the file system stay as they are
Resume ==
    /\ pc = "done"
    /\ pc' = "idle"
    /\ call' = NoCall
    /\ cmd' = << >>
    /\ argv' = << >>
    /\ child' = NoChild
    /\ spawned' = 0
    /\ log' = << >>
    /\ outcome' = NoOutcome
    /\ status' = NoStatus
    /\ KeepModuleState

Next ==
    \/ Import
    \/ DockerComposeCmd
    \/ RunDockerComposeCmd
    \/ RunCmd
    \/ docker_build
    \/ docker_start
    \/ docker_stop
    \/ docker_exec
    \/ docker_debug
    \/ docker_debug_usage_error
    \/ docker_restart
    \/ docker_logs
    \/ service_start
    \/ service_stop
    \/ service_debug
    \/ service_restart
    \/ service_destroy
    \/ service_docker_ps
    \/ manage_network
    \/ old_docker_build
    \/ old_docker_exec
    \/ old_docker_debug
    \/ old_docker_start
    \/ old_docker_stop
    \/ old_docker_restart
    \/ old_docker_logs
    \/ old_docker_ps
    \/ old_docker_destroy
    \/ old_docker_rm
    \/ old_docker_network
    \/ SubprocessRun
    \/ ChildExit
    \/ ChildTimeout
    \/ Resume

Spec == Init /\ [][Next]_vars

(***************************************************************************)
(* Properties.                                                             *)
(***************************************************************************)
\* the calls that go through main.py run_docker_compose_cmd
MainComposeRunners == MainHandlers \cup {"run_docker_compose_cmd"}

InMainRunner == call.layer = "main" /\ call.fn \in MainComposeRunners
InServiceOp == call.layer = "service" /\ call.fn \in ServiceComposeOps

HasRunningLine == \E i \in 1 .. Len(log) : log[i].fmt = "Running command: {}"

\* C1: main.py run_docker_compose_cmd called with a compose file that does
\* not exist never spawns a child process, whatever the action, services,
\* verbosity and options: no command is built, no 'Running command' line is
\* logged, and the call ends by raising typer.Exit with exit status 1.
C1_MissingFileAborts ==
    (InMainRunner /\ ~Exists(call.file)) =>
        /\ pc = "done"
        /\ spawned = 0
        /\ child = NoChild
        /\ cmd = << >>
        /\ argv = << >>
        /\ ~HasRunningLine
        /\ outcome = Raise("typer.Exit", 1)

C1_Witness ==
    /\ call.fn = "run_docker_compose_cmd"
    /\ ~Exists(call.file)
    /\ call.verbose = 1
    /\ Len(call.services.val) = 2
    /\ call.extra # << >>
    /\ pc = "done"
    /\ outcome.exc = "typer.Exit"

\* C2 (as claimed): in the DockerService layer, for every operation and
\* project, a compose file that does not exist makes the invocation fail
\* with a configuration error before any process is spawned.
C2_ServiceMissingFileNeverSpawns ==
    (InServiceOp /\ ~Exists(call.file)) =>
        /\ spawned = 0
        /\ child = NoChild
        /\ outcome.kind = "raise"

\* The command the specified algorithm renders: the enabled segments, in
\* the fixed order, separated by single spaces.
Segments(base, name, file, verbose, action, extra, services, command) ==
    <<base, <<"--project-name", SP>> \o name, <<"-f", SP, PathStr(file)>>>>
        \o (IF verbose # 0 THEN <<(<<"--verbose">>)>> ELSE << >>)
        \o <<action>>
        \o (IF extra # << >> THEN <<extra>> ELSE << >>)
        \o (IF services # << >> THEN <<Join(<<SP>>, services)>> ELSE << >>)
        \o (IF command # << >> THEN <<command>> ELSE << >>)

BaseTokens == {<<"docker-compose">>, <<"docker", SP, "compose">>}

Rendered(base, c) ==
    Join(<<SP>>, Segments(base, c.name, c.file, c.verbose, c.action, c.extra, OrEmpty(c.services), c.command))

\* C3: main.py docker_compose_cmd returns exactly the space-separated
\* concatenation, in the fixed order, of: the base invocation token,
\* '--project-name <compose_name>', '-f <docker_compose_file>', '--verbose'
\* only if verbose, the action, extra_options only if non-empty, the
\* services joined by single spaces only if non-empty, and command only if
\* non-empty; the same string is what the handlers hand to run_cmd.
C3_FixedOrderConcatenation ==
    /\ (call.fn = "docker_compose_cmd" /\ outcome.kind = "return") =>
           \E base \in BaseTokens : outcome.value = Rendered(base, call)
    /\ (InMainRunner /\ spawned = 1) =>
           \E base \in BaseTokens : cmd = Rendered(base, call)

C3_Witness ==
    /\ call.fn = "docker_compose_cmd"
    /\ outcome.kind = "return"
    /\ call.verbose # 0
    /\ call.extra # << >>
    /\ Len(call.services.val) = 2
    /\ call.command # << >>
    /\ call.name # << >>

\* C4 (as claimed): the command line the DockerService operations build
\* (utils run_docker_compose_cmd) follows the fixed segment order of the
\* specified algorithm: base token, '--project-name <name>', '-f <file>',
\* '--verbose' exactly when verbose, the action, the extra options, then
\* the service list.
C4_ServiceBuilderFixedOrder ==
    (InServiceOp /\ spawned = 1) =>
        \E base \in BaseTokens, name \in ComposeNames \ {<< >>} :
            cmd = Join(<<SP>>, Segments(base, name, call.file, call.verbose, call.action,
                                        call.extra, OrEmpty(call.services), << >>))

\* C5 (as claimed): with action 'up', file
\* './projects/project_01/docker-compose.yml', services ['web'], verbose
\* true, no extra options, no sub-command and the environment flag unset,
\* main.py run_docker_compose_cmd hands run_cmd exactly 'docker compose
\* --project-name weagle -f ./projects/project_01/docker-compose.yml
\* --verbose up web'.
C5_ScenarioCommand ==
    (/\ call.fn = "run_docker_compose_cmd"
     /\ call.action = <<"up">>
     /\ call.file = ComposeFile("project_01")
     /\ call.services = Some(<<(<<"web">>)>>)
     /\ call.verbose = 1
     /\ call.extra = << >>
     /\ call.command = << >>
     /\ env = NoneVal
     /\ spawned = 1) =>
        Str(cmd) = "docker compose --project-name weagle -f ./projects/project_01/docker-compose.yml --verbose up web"

\* C6: for network action 'create', DockerService.manage_network hands
\* run_cmd exactly 'docker network create --driver <driver> --subnet
\* <subnet> <name>'; with name 'weagle-network', driver 'bridge' and subnet
\* '192.168.1.0/24' that is 'docker network create --driver bridge
\* --subnet 192.168.1.0/24 weagle-network'.
C6_NetworkCreateCommand ==
    (call.fn = "manage_network" /\ call.action = <<"create">> /\ pc # "idle") =>
        /\ spawned = 1
        /\ Str(cmd) = "docker network create --driver " \o call.extra[1]
                          \o " --subnet " \o call.extra[2] \o " " \o call.name[1]
        /\ (call.name = <<"weagle-network">> /\ call.extra = <<"bridge", "192.168.1.0/24">>) =>
               Str(cmd) = "docker network create --driver bridge --subnet 192.168.1.0/24 weagle-network"
        /\ argv = Split(cmd)

C6_Witness ==
    /\ call.fn = "manage_network"
    /\ call.action = <<"create">>
    /\ call.name = <<"weagle-network">>
    /\ call.extra = <<"bridge", "192.168.1.0/24">>
    /\ spawned = 1
    /\ pc = "waiting"

\* the utils f-string with the service-list segment left out
UtilsRenderedWithoutServices(c) ==
    <<"docker-compose", SP, "-f", SP, PathStr(c.file), SP>> \o c.action \o <<SP>> \o c.extra

\* C7 (as claimed): when the service list is empty or None, the command
\* rendered by each compose builder (main.py docker_compose_cmd and utils
\* run_docker_compose_cmd) has no service-list segment and no empty-string
\* artifact of it: it equals the string rendered with the services segment
\* left out, and does not end in a separator.
C7_NoServiceListArtifact ==
    /\ (InMainRunner /\ spawned = 1 /\ OrEmpty(call.services) = << >>) =>
           /\ \E base \in BaseTokens :
                  cmd = Join(<<SP>>, Segments(base, call.name, call.file, call.verbose,
                                              call.action, call.extra, << >>, call.command))
           /\ cmd[Len(cmd)] # SP
    /\ (InServiceOp /\ spawned = 1 /\ OrEmpty(call.services) = << >>) =>
           /\ cmd = UtilsRenderedWithoutServices(call)
           /\ cmd[Len(cmd)] # SP

Count(w, toks) == Len(SelectSeq(toks, LAMBDA x : x = w))
Words(s) == {s[i] : i \in {j \in 1 .. Len(s) : s[j] # SP}}
\* the tokens the builder itself writes for this call
BuilderTokens(c) == {"--project-name", "-f", "--verbose"} \cup Words(c.action)
\* no service name, extra flag or sub-command word is one of them
NoTokenClash(c) ==
    \A w \in Words(Join(<<SP>>, OrEmpty(c.services))) \cup Words(c.extra) \cup Words(c.command) :
        w \notin BuilderTokens(c)

HasBuilt ==
    \/ call.fn = "docker_compose_cmd" /\ outcome.kind = "return"
    \/ InMainRunner /\ spawned = 1
BuiltCmd == IF call.fn = "docker_compose_cmd" THEN outcome.value ELSE cmd

\* C8: when no service name, extra flag or sub-command word is itself one
\* of the builder's own tokens, the string main.py docker_compose_cmd
\* produces contains '--project-name' exactly once, '-f' exactly once,
\* '--verbose' exactly once when verbose and never otherwise, and the
\* action token exactly once.
C8_EachFlagOnce ==
    (HasBuilt /\ NoTokenClash(call)) =>
        LET toks == Split(BuiltCmd)
        IN /\ Count("--project-name", toks) = 1
           /\ Count("-f", toks) = 1
           /\ Count("--verbose", toks) = (IF call.verbose # 0 THEN 1 ELSE 0)
           /\ \A a \in Words(call.action) : Count(a, toks) = 1

C8_Witness ==
    /\ HasBuilt
    /\ NoTokenClash(call)
    /\ call.verbose = 0
    /\ call.extra # << >>
    /\ Len(call.services.val) = 2
    /\ Count("-f", Split(BuiltCmd)) = 1

\* the precondition of C8 is needed: docker_logs --follow passes '-f' as an
\* extra flag, and the command then holds '-f' twice
C8_ClashState ==
    /\ HasBuilt
    /\ ~NoTokenClash(call)
    /\ Count("-f", Split(BuiltCmd)) = 2

HasSuccessLine == \E i \in 1 .. Len(log) : log[i].fmt = "{} completed successfully"
HasFailureLine == \E i \in 1 .. Len(log) : log[i].fmt = "{} failed"

\* C9: main.py run_cmd classifies the outcome by exit code and never
\* escalates it: on exit code 0 it logs the success line (no failure line)
\* and returns; on a non-zero exit code it logs the failure line (no
\* success line), raises nothing, and returns a result whose returncode is
\* the child's exit code.
C9_ExitCodeReturnedVerbatim ==
    (call.layer = "main" /\ child.st = "exited") =>
        /\ pc = "done"
        /\ outcome = ReturnProcess(child.rc)
        /\ (child.rc = 0) => (HasSuccessLine /\ ~HasFailureLine)
        /\ (child.rc # 0) => (HasFailureLine /\ ~HasSuccessLine)

C9_Witness ==
    /\ call.fn = "run_cmd"
    /\ child.st = "exited"
    /\ child.rc = 2
    /\ outcome.kind = "return"
    /\ outcome.code = 2
    /\ HasFailureLine

\* C10 (as claimed): in the DockerService layer a child that exits with a
\* non-zero code is reported and returned to the caller as a result: no
\* exception leaves the runner because of the non-zero exit.
C10_ServiceNonZeroNotEscalated ==
    (call.layer = "service" /\ child.st = "exited" /\ child.rc # 0) =>
        outcome.kind = "return"

\* C11 (as claimed): when a stack subcommand of main.py has ended, the exit
\* status of the CLI process equals the exit code of the child it ran, and is
\* non-zero when the compose file is missing.
C11_ExitStatusMirrorsChild ==
    (call.fn \in MainHandlers /\ pc = "done") =>
        /\ status.exited
        /\ (child.st = "exited") => (status.code = child.rc)
        /\ (~Exists(call.file)) => (status.code # 0)

\* C12 (as claimed): DOCKER_COMPOSE_WITH_HASH selects the binary form in
\* main.py docker_compose_cmd: a truthy flag gives a command that starts with
\* 'docker-compose', a false or unset flag one that starts with
\* 'docker compose'.
C12_HashFlagSelectsBinary ==
    (call.fn = "docker_compose_cmd" /\ pc = "done" /\ outcome.kind = "return") =>
        LET words == Split(outcome.value) IN
        IF is_truthy(EnvHashFlag).value
        THEN words[1] = "docker-compose"
        ELSE words[1] = "docker" /\ words[2] = "compose"

\* C13 (as claimed): main.py docker_compose_cmd has no error condition:
\* whatever the arguments and whatever the value of DOCKER_COMPOSE_WITH_HASH,
\* the call returns a command string and raises nothing.
C13_BuilderNeverRaises ==
    (call.fn = "docker_compose_cmd" /\ pc = "done") =>
        /\ outcome.kind = "return"
        /\ outcome.type = "str"

\* C14: when main.py run_cmd has a timeout and the child is still running
\* when it elapses, the child is killed and TimeoutExpired leaves run_cmd:
\* the call ends without a result and without an outcome line, and a child
\* is killed only in a call that was given a timeout.
C14_TimeoutKillsAndRaises ==
    /\ (call.layer = "main" /\ child.st = "killed") =>
        /\ call.timeout
        /\ pc = "done"
        /\ outcome.kind = "raise"
        /\ outcome.exc = "TimeoutExpired"
        /\ ~HasSuccessLine
        /\ ~HasFailureLine
    /\ (call.layer = "main" /\ outcome.exc = "TimeoutExpired") => child.st = "killed"
    /\ (call.layer = "main" /\ pc = "done" /\ spawned > 0) => child.st \in {"exited", "killed"}

C14_Witness ==
    /\ call.fn = "run_cmd"
    /\ call.timeout
    /\ spawned = 1
    /\ child.st = "killed"
    /\ outcome.exc = "TimeoutExpired"
    /\ pc = "done"

RunnerCalls == MainComposeRunners \cup ServiceComposeOps \cup {"run_cmd", "manage_network"}

\* C15 (as claimed): a runner call is a single attempt: it never spawns more
\* than one child, it has spawned exactly one when it ends and the compose
\* file it was given exists (run_cmd has no such precondition), and it does
\* not end while the child it spawned is still running.
C15_SingleAttempt ==
    (call.fn \in RunnerCalls) =>
        /\ spawned <= 1
        /\ (pc = "done" /\ (call.file # << >> => Exists(call.file))) => spawned = 1
        /\ (pc = "done" /\ spawned = 1) => child.st \in {"exited", "killed"}

IsRunningLine(l) == l.kind = "log" /\ l.fmt = "Running command: {}"
IsOutcomeLine(l) == l.kind = "log" /\ l.fmt \in {"{} completed successfully", "{} failed"}
IsEndRule(l) == l.kind = "rule" /\ l.fmt = "End of task: [b i]{}"
OutcomeLines == {i \in 1 .. Len(log) : IsOutcomeLine(log[i])}
EndRules == {i \in 1 .. Len(log) : IsEndRule(log[i])}
InMainRunCmd == call.layer = "main" /\ call.fn # "docker_compose_cmd"

\* C16: in a main.py run_cmd call the status lines are ordered around the
\* execution: the 'Running command' line is the last line written when the
\* child is about to be spawned and while it runs, with no outcome line and
\* no end-of-task rule yet; once the child has completed the call is over
\* and the log ends with that 'Running command' line, exactly one outcome
\* line, the end-of-task rule and the blank line, in this order.
C16_StatusLinesAroundExecution ==
    InMainRunCmd =>
        /\ (pc = "spawning") =>
            /\ child.st = "none"
            /\ Len(log) > 0
            /\ IsRunningLine(log[Len(log)])
        /\ (child.st = "running") =>
            /\ Len(log) > 0
            /\ IsRunningLine(log[Len(log)])
            /\ OutcomeLines = {}
            /\ EndRules = {}
        /\ (child.st = "exited") =>
            /\ pc = "done"
            /\ outcome.kind = "return"
            /\ Len(log) >= 4
            /\ IsRunningLine(log[Len(log) - 3])
            /\ OutcomeLines = {Len(log) - 2}
            /\ EndRules = {Len(log) - 1}
            /\ log[Len(log)] = PrintLine

C16_Witness ==
    /\ call.fn = "docker_stop"
    /\ child.st = "exited"
    /\ child.rc = 1
    /\ Len(log) = 5
    /\ IsRunningLine(log[2])
    /\ log[3].fmt = "{} failed"
    /\ IsEndRule(log[4])

StackCommands == MainHandlers \cup ServiceComposeOps
\* ./projects/<project value>/docker-compose.yml as pathlib prints it
TemplatePath(p) == "projects/" \o p \o "/docker-compose.yml"
TemplatePaths == {TemplatePath(p) : p \in ProjectFolders}

C17_TargetsTemplate ==
    (call.fn \in StackCommands) =>
        /\ call.project \in ProjectFolders
        /\ PathStr(call.file) = TemplatePath(call.project)
        /\ (cmd # << >>) =>
            LET words == Split(cmd) IN
            /\ \E i \in 1 .. Len(words) - 1 :
                words[i] = "-f" /\ words[i + 1] = TemplatePath(call.project)
            /\ \A i \in 1 .. Len(words) :
                words[i] \in TemplatePaths => words[i] = TemplatePath(call.project)
        /\ (spawned = 1) => (argv = Split(cmd))

\* C17: every stack command (the docker_* handlers of main.py and the
\* DockerService operations) works on the compose file of the selected
\* project, ./projects/<project value>/docker-compose.yml, and names no other
\* compose file in the command it runs; and no step of the program creates,
\* writes or deletes a file: the path is only tested and passed along.
C17_FixedTemplateReadOnly == []C17_TargetsTemplate /\ [][fs' = fs]_vars

C17_Witness ==
    /\ call.fn = "destroy"
    /\ call.project = "project_02"
    /\ spawned = 1
    /\ "projects/project_02/docker-compose.yml" \notin fs
    /\ argv[3] = "projects/project_02/docker-compose.yml"
    /\ pc = "done"

\* C18 (as claimed): a network action outside create, connect, disconnect,
\* inspect, ls, prune and rm is rejected: no process is spawned for it.
C18_UnknownNetworkActionRejected ==
    (call.fn = "manage_network" /\ call.action[1] \notin DockerNetworkAction) =>
        /\ spawned = 0
        /\ child.st = "none"
        /\ cmd = << >>

DocTrueValues == {"y", "yes", "t", "true", "on", "1"}
DocFalseValues == {"n", "no", "f", "false", "off", "0"}

\* C19 (as claimed): is_truthy follows its docstring, case-insensitively:
\* True for y, yes, t, true, on and 1, False for n, no, f, false, off and 0,
\* the argument itself for a bool, False for None, ValueError otherwise.
\* Stated for the value docker_compose_cmd passes to it.
C19_IsTruthyAsDocumented ==
    /\ \A b \in BOOLEAN : is_truthy(BoolVal(b)) = Returned(b)
    /\ (call.fn = "docker_compose_cmd" /\ pc = "done") =>
        LET arg == EnvHashFlag
            r == is_truthy(arg)
        IN IF arg.none THEN r.exc = "" /\ r.value = FALSE
           ELSE IF Lower(arg.val) \in DocTrueValues THEN r.exc = "" /\ r.value = TRUE
           ELSE IF Lower(arg.val) \in DocFalseValues THEN r.exc = "" /\ r.value = FALSE
           ELSE r.exc = "ValueError"

\* the command a docker_compose_cmd call returns when services is left out
\* is the command of an empty services list
DefaultServicesEmpty ==
    (call.fn = "docker_compose_cmd" /\ call.services.none /\ pc = "done") =>
        outcome = docker_compose_cmd(call.action, call.file, << >>, call.verbose, call.extra, call.command, call.name)

\* C20: no call leaves anything behind for a later call: once main.py is
\* imported no step changes the module-level ENVVARS mapping or the default
\* services list, the default list is empty at every call, and a call that
\* omits services builds the command of an empty list.
C20_NoSharedMutableState ==
    /\ [][(pc # "import") => (env' = env /\ default_services' = default_services)]_vars
    /\ [](default_services = << >>)
    /\ []DefaultServicesEmpty

C20_Witness ==
    /\ call.fn = "docker_compose_cmd"
    /\ call.services.none
    /\ call.verbose = 1
    /\ pc = "done"
    /\ outcome.kind = "return"
    /\ default_services = << >>

\* C21 (as claimed): the import of main.py resolves DOCKER_COMPOSE_WITH_HASH
\* by the precedence process environment, then .setup.env, then .env: ENVVARS
\* holds the value the process was launched with when there is one, else the
\* value of .setup.env when there is one, else the value of .env.
C21_ProcessEnvWins ==
    [][(pc = "import") =>
        (env' = IF ~os_environ.none THEN os_environ
                ELSE IF ~setup_env_file.none THEN setup_env_file
                ELSE dotenv_file)]_vars

NamedNetworkActions == {"create", "connect", "disconnect", "inspect", "rm"}

\* C22 (as claimed): for the network actions that work on a named network
\* (create, connect, disconnect, inspect, rm) the command manage_network
\* runs ends with the network name; for ls and prune the name is not in the
\* command.
C22_NetworkNameLastToken ==
    (call.fn = "manage_network" /\ spawned = 1) =>
        LET words == Split(cmd)
            a == call.action[1]
            n == call.name[1]
        IN /\ (a \in NamedNetworkActions) => (words[Len(words)] = n)
           /\ (a \in {"ls", "prune"}) => (\A i \in 1 .. Len(words) : words[i] # n)

SharedSubcommands == {"start", "stop", "restart", "debug"}
\* the compose action the claim gives each shared subcommand
ClaimedAction(name) == IF name = "start" \/ name = "debug" THEN <<"up">> ELSE <<name>>

\* C23 (as claimed): each subcommand that both layers define (start, stop,
\* restart, debug) issues the same compose action with the same extra
\* options in both: the main.py handler issues 'up', 'stop', 'restart' and
\* 'up', with no extra options unless start is given --detached, and the
\* DockerService operation of the same name issues the action and the
\* options of the handler's default flags.
C23_LayersIssueSameAction ==
    /\ (call.layer = "main" /\ call.fn \in {"docker_" \o n : n \in SharedSubcommands}) =>
        /\ \E n \in SharedSubcommands : call.fn = "docker_" \o n /\ call.action = ClaimedAction(n)
        /\ call.fn # "docker_start" => call.extra = << >>
    /\ (call.layer = "service" /\ call.fn \in SharedSubcommands) =>
        /\ call.action = ClaimedAction(call.fn)
        /\ call.extra = << >>

\* C24: a stack command handler of main.py ends exactly when its child ends.
\* No handler passes a timeout, so its child is never killed; when the
\* compose file exists the handler has returned if and only if the child it
\* spawned has exited, and it stays blocked while the child runs; when the
\* file is missing the handler is over at once, with typer.Exit and without
\* a child.
C24_HandlerEndsWithChild ==
    (call.fn \in MainHandlers) =>
        /\ ~call.timeout
        /\ child.st # "killed"
        /\ Exists(call.file) =>
            /\ (outcome.kind = "return") <=> (child.st = "exited")
            /\ (child.st = "exited") => (pc = "done")
            /\ (child.st = "running") => (pc = "waiting" /\ outcome.kind = "none")
        /\ (~Exists(call.file)) =>
            /\ pc = "done"
            /\ outcome.exc = "typer.Exit"
            /\ spawned = 0
            /\ child.st = "none"

C24_Witness ==
    /\ call.fn = "docker_logs"
    /\ Exists(call.file)
    /\ spawned = 1
    /\ child.st = "exited"
    /\ outcome.kind = "return"
    /\ pc = "done"

TailOption(tail) == "--tail=" \o ToString(tail)
ServiceWords(c) == [k \in 1 .. Len(c.services.val) |-> c.services.val[k][1]]

\* the options docker_logs builds for one (follow, tail) pair
LogsOptionsAsClaimed(follow, tail) ==
    LET options == LogsOptions(follow, tail)
        w == Split(options)
    IN /\ Count("-f", w) = BoolInt(follow)
       /\ Count(TailOption(tail), w) = (IF tail # 0 THEN 1 ELSE 0)
       /\ Len(w) = BoolInt(follow) + (IF tail # 0 THEN 1 ELSE 0)
       /\ (follow /\ tail # 0) => (w = <<"-f", TailOption(tail)>>)
       /\ (~follow /\ tail = 0) => (Str(options) = "")

\* the command of a docker_logs call: the options follow 'logs' and come
\* before the services
LogsCommandOrder ==
    LET w == Split(cmd)
        o == Split(call.extra)
        i == CHOOSE j \in 1 .. Len(w) : w[j] = "logs"
    IN /\ \E j \in 1 .. Len(w) : w[j] = "logs"
       /\ Len(w) = i + Len(o) + Len(ServiceWords(call))
       /\ SubSeq(w, i + 1, i + Len(o)) = o
       /\ SubSeq(w, i + Len(o) + 1, Len(w)) = ServiceWords(call)

\* C25: for every (follow, tail) pair the options docker_logs passes hold
\* '-f' once if follow is true and not otherwise, '--tail=<tail>' once if
\* tail is non-zero and not otherwise, '-f' before '--tail', and nothing
\* when follow is false and tail is 0; every docker_logs call passes the
\* options of one such pair, and its command has them after 'logs' and
\* before the services.
C25_LogsOptions ==
    /\ \A follow \in BOOLEAN, tail \in Tails : LogsOptionsAsClaimed(follow, tail)
    /\ (call.fn = "docker_logs") =>
        \E follow \in BOOLEAN, tail \in Tails : call.extra = LogsOptions(follow, tail)
    /\ (call.fn = "docker_logs" /\ cmd # << >>) => LogsCommandOrder

C25_Witness ==
    /\ call.fn = "docker_logs"
    /\ spawned = 1
    /\ call.extra = <<SP, "-f", SP, "--tail=100">>
    /\ Len(call.services.val) = 2
    /\ LET w == Split(cmd) IN SubSeq(w, Len(w) - 4, Len(w)) = <<"logs", "-f", "--tail=100", "web", "db">>

====
